---- MODULE Spec2Model ----
(***************************************************************************)
(* The OAuth 2.0 + PKCE login tool of src/index.ts as a state machine.     *)
(*                                                                         *)
(* State: the wall clock, the two files the tool owns (the pending-state   *)
(* file and the credentials file), the position of the running invocation  *)
(* (a CLI process, or a direct call of an exported function as the test    *)
(* suite makes them), the local variables of the functions that are in     *)
(* progress or have returned, and what the invocation has written to the   *)
(* console and asked of the file system and the network.                   *)
(*                                                                         *)
(* Every await of the source is a step boundary: the clock may advance     *)
(* between two steps.  Strings that the code takes apart (the              *)
(* authorization code, the scope list, the command-line arguments) are     *)
(* sequences of one-character strings; opaque strings are tokens.          *)
(***************************************************************************)
EXTENDS Integers, Sequences, FiniteSets, TLC

----------------------------------------------------------------------------
(* Bounds of the model *)

\* how many times the clock advances in one behaviour
MaxTicks == 2
\* the longest raw authorization code handed to the tool
MaxCodeLen == 3
\* how many invocations (CLI runs or direct calls) one behaviour makes
MaxRuns == 2

----------------------------------------------------------------------------
(* JavaScript values *)

Undef == [t |-> "undefined"]
JNull == [t |-> "null"]
NaN == [t |-> "nan"]
Num(n) == [t |-> "num", v |-> n]
\* a string the code takes apart: a sequence of characters
Str(s) == [t |-> "str", v |-> s]
\* an opaque, non-empty string
Tok(s) == [t |-> "tok", v |-> s]
Bool(b) == [t |-> "bool", v |-> b]
Arr(s) == [t |-> "arr", v |-> s]
Obj(o) == [t |-> "obj", v |-> o]

\* ToBoolean: what `if (x)`, `!x` and `x ? a : b` test
Truthy(x) ==
  CASE x.t = "undefined" -> FALSE
    [] x.t = "null" -> FALSE
    [] x.t = "nan" -> FALSE
    [] x.t = "num" -> x.v # 0
    [] x.t = "str" -> Len(x.v) > 0
    [] x.t = "bool" -> x.v
    [] OTHER -> TRUE

\* a > b on numbers; undefined and NaN compare false with everything
JsGt(a, b) == IF a.t = "num" /\ b.t = "num" THEN a.v > b.v ELSE FALSE

\* a + b and a * b on numbers; undefined and NaN give NaN
JsAdd(a, b) == IF a.t = "num" /\ b.t = "num" THEN Num(a.v + b.v) ELSE NaN
JsMul(a, b) == IF a.t = "num" /\ b.t = "num" THEN Num(a.v * b.v) ELSE NaN

\* property access o.k on a value: undefined when the property is missing
Get(o, k) == IF o.t = "obj" /\ k \in DOMAIN o.v THEN o.v[k] ELSE Undef

\* String.prototype.split(sep) for a one-character separator: the segments
\* between the occurrences of sep, never an empty array
RECURSIVE Split(_, _)
Split(s, sep) ==
  IF s = <<>> THEN << <<>> >>
  ELSE LET rest == Split(Tail(s), sep) IN
       IF Head(s) = sep THEN << <<>> >> \o rest
       ELSE << <<Head(s)>> \o Head(rest) >> \o Tail(rest)

\* JSON.stringify of a value: NaN becomes null, an object loses the
\* properties whose value is undefined (the values here nest one level)
JsonFlat(x) == IF x.t = "nan" THEN JNull ELSE x
JsonObj(o) ==
  Obj([k \in {j \in DOMAIN o.v : o.v[j].t # "undefined"} |-> JsonFlat(o.v[k])])
JsonStringify(x) ==
  IF x.t = "obj"
  THEN Obj([k \in {j \in DOMAIN x.v : x.v[j].t # "undefined"} |->
              IF x.v[k].t = "obj" THEN JsonObj(x.v[k]) ELSE JsonFlat(x.v[k])])
  ELSE JsonFlat(x)

----------------------------------------------------------------------------
(* Files: absent, a directory in the file's place (it cannot be read,      *)
(* written or unlinked), text that is no JSON, or JSON text                *)

NoFile == [kind |-> "none"]
DirFile == [kind |-> "dir"]
GarbageFile == [kind |-> "garbage"]
JsonFile(doc) == [kind |-> "json", doc |-> doc]

----------------------------------------------------------------------------
(* Constants of the program *)

OAUTH_AUTHORIZE_URL == Tok("https://claude.ai/oauth/authorize")
OAUTH_TOKEN_URL == Tok("https://console.anthropic.com/v1/oauth/token")
CLIENT_ID == Tok("9d1c250a-e61b-44d9-88ed-5944d1962f5e")
REDIRECT_URI == Tok("https://console.anthropic.com/oauth/code/callback")
\* the lifetime of a pending authorization, in seconds
TTL == 600
\* milliseconds per second, the factor of expiresAt
MsPerSecond == 1000
\* the scopes of a credential whose token response names none:
\* ['user:inference', 'user:profile']
DefaultScopes ==
  Arr(<< Str(<<"u","s","e","r",":","i","n","f","e","r","e","n","c","e">>),
         Str(<<"u","s","e","r",":","p","r","o","f","i","l","e">>) >>)
\* the scope the authorization URL asks for
RequestedScope == Tok("org:create_api_key user:profile user:inference")

\* the command-line flags
HelpLong == <<"-","-","h","e","l","p">>
HelpShort == <<"-","h">>

----------------------------------------------------------------------------
(* The inputs the environment chooses from *)

\* randomBytes(32).toString('hex')
States == {Tok("s1"), Tok("s2")}
\* randomBytes(32).toString('base64url')
Verifiers == {Tok("v1"), Tok("v2")}

CodeChars == {"c", "#", "&"}
RECURSIVE SeqsUpTo(_, _)
SeqsUpTo(S, n) ==
  IF n = 0 THEN {<<>>}
  ELSE LET shorter == SeqsUpTo(S, n - 1) IN
       shorter \cup {<<c>> \o s : c \in S, s \in {x \in shorter : Len(x) = n - 1}}
\* every raw authorization code up to the bound
AllCodes == SeqsUpTo(CodeChars, MaxCodeLen)
\* the raw authorization codes of the invocations: empty, bare, with a
\* fragment and a query behind it ("actual-code#fragment&other=param" in
\* short), with the query first
Codes == {<<>>, <<"c">>, <<"c", "#", "f", "&", "o">>, <<"c", "&", "o", "#", "f">>}

\* the argument lists of a CLI run: nothing, a code, a help flag, both
ArgLists ==
  {<<>>, <<HelpLong>>, <<<<"c">>, HelpShort>>} \cup {<<c>> : c \in Codes}

\* how far the clock moves in one advance: a second, or a whole lifetime
TickSteps == {1, TTL}

\* the bodies a success response of the token endpoint may carry
FullPayload ==
  Obj([access_token |-> Tok("A"), refresh_token |-> Tok("B"), expires_in |-> Num(3600)])
ScopedPayload ==
  Obj([access_token |-> Tok("A2"), refresh_token |-> Tok("B2"), expires_in |-> Num(7200),
       scope |-> Str(<<"r", " ", "w">>)])
\* a scope property that is there and is the empty string
EmptyScopePayload ==
  Obj([access_token |-> Tok("A"), refresh_token |-> Tok("B"), expires_in |-> Num(3600),
       scope |-> Str(<<>>)])
\* a JSON object with none of the properties the code reads
BarePayload == Obj([token_type |-> Tok("Bearer")])
Payloads == {FullPayload, ScopedPayload, EmptyScopePayload, BarePayload, JNull}

\* what a fetch of the token endpoint may come to: the request fails in
\* transport, the endpoint answers with a failure status, it answers success
\* with a body that is no JSON, or success with a JSON body
Responses ==
  {[kind |-> "throw"], [kind |-> "status", ok |-> FALSE], [kind |-> "badbody", ok |-> TRUE]}
    \cup {[kind |-> "json", ok |-> TRUE, data |-> d] : d \in Payloads}

\* pending-state files found on disk when the tool starts: written a lifetime
\* ago by an earlier phase 1, or by hand with properties missing
OldRecord ==
  Obj([state |-> Tok("s0"), code_verifier |-> Tok("v0"),
       timestamp |-> Num(0), expires_at |-> Num(TTL)])
NoExpiryRecord ==
  Obj([state |-> Tok("s0"), code_verifier |-> Tok("v0"), timestamp |-> Num(0)])
NoVerifierRecord ==
  Obj([state |-> Tok("s0"), timestamp |-> Num(0), expires_at |-> Num(TTL)])
InitStateFiles ==
  {NoFile, DirFile, GarbageFile, JsonFile(OldRecord), JsonFile(NoExpiryRecord),
   JsonFile(NoVerifierRecord)}

\* credentials files found on disk when the tool starts
OldCredentials ==
  Obj([claudeAiOauth |->
         Obj([accessToken |-> Tok("A0"), refreshToken |-> Tok("B0"),
              expiresAt |-> Num(0), scopes |-> DefaultScopes, isMax |-> Bool(TRUE)])])
InitCredFiles == {NoFile, JsonFile(OldCredentials)}

----------------------------------------------------------------------------
(* The functions of src/index.ts, as the code computes them *)

\* whether writeFile / unlink / readFile can succeed on what is at the path
CanWrite(file) == file.kind # "dir"
CanUnlink(file) == file.kind \in {"garbage", "json"}
CanRead(file) == file.kind \in {"garbage", "json"}

\* an unlink that reports success and leaves the file where it is
UnlinkLeavesFile(file, ok) == file

\* what is at the path after unlink: nothing, or what was there when the
\* unlink throws
Unlink(file, ok) == IF ok THEN NoFile ELSE file

\* a writeFile that leaves alone a file that is already there
WriteFileKeepsExisting(file, doc, ok) ==
  IF ok /\ file.kind = "none" THEN JsonFile(doc) ELSE file

\* what is at the path after writeFile: the new text in place of whatever
\* was there, or what was there when the write throws
WriteFile(file, doc, ok) == IF ok THEN JsonFile(doc) ELSE file

\* a saveState, saveCredentials, cleanupState without its catch block
SaveStateRethrows == "throw"
SaveCredentialsRethrows == "throw"
CleanupStateRethrows == "throw"
\* a cleanupState whose catch block is empty
CleanupStateSwallows == "ignore"

\* an exchangeCode without its catch block
ExchangeCodeRethrows == "throw"

\* what the catch block of exchangeCode does with an error of fetch, of
\* response.json() or of building the credential: it logs it and returns null
ExchangeCodeOnError == "return null"

\* what the catch block of each function does with the error of its file
\* operation: saveState and cleanupState warn, saveCredentials logs the
\* error and returns false; none throws it on
SaveStateOnError == "warn"
SaveCredentialsOnError == "return false"
CleanupStateOnError == "warn"

\* the stateData object of saveState; t1 and t2 are its two clock reads
StateData(state, codeVerifier, t1, t2) ==
  Obj([state |-> state, code_verifier |-> codeVerifier,
       timestamp |-> Num(t1), expires_at |-> Num(t2 + TTL)])

\* a challenge that is the verifier itself (the PKCE method "plain")
PlainChallenge(x) == x

\* createHash('sha256').update(x).digest('base64url'), as a symbolic term
Sha256Base64Url(x) == [t |-> "sha256-base64url", of |-> x]

\* a generateLoginUrl whose URL is logged a second time
UrlOutputTwice(url) == <<url, url>>

\* console.log(url): what generateLoginUrl writes to standard output
UrlOutput(url) == <<url>>

\* the URL generateLoginUrl builds
LoginUrl(state, codeChallenge) ==
  [t |-> "url", base |-> OAUTH_AUTHORIZE_URL,
   params |-> [code |-> Tok("true"), client_id |-> CLIENT_ID,
               response_type |-> Tok("code"), redirect_uri |-> REDIRECT_URI,
               scope |-> RequestedScope, code_challenge |-> codeChallenge,
               code_challenge_method |-> Tok("S256"), state |-> state]]

\* a loadState without its catch block: the error of readFile or JSON.parse
\* reaches the caller
LoadStateNoCatch(file) ==
  IF CanRead(file) /\ file.kind = "json" THEN file.doc ELSE [t |-> "error"]

\* loadState: the parsed content, null when the file cannot be read or parsed
LoadState(file) == IF CanRead(file) /\ file.kind = "json" THEN file.doc ELSE JNull

\* a verifyState that accepts every record it can load, whatever the clock
VerifyStateNoExpiry(file, t) ==
  LET stateData == LoadState(file) IN
  IF ~Truthy(stateData)
  THEN [called |-> TRUE, stateData |-> stateData, currentTime |-> Undef,
        result |-> FALSE, err |-> <<Tok("No state file found")>>]
  ELSE [called |-> TRUE, stateData |-> stateData, currentTime |-> Num(t),
        result |-> TRUE, err |-> <<>>]

\* a verifyState that compares with >= : the record is expired at expires_at
VerifyStateExpiredAtBoundary(file, t) ==
  LET stateData == LoadState(file) IN
  IF ~Truthy(stateData)
  THEN [called |-> TRUE, stateData |-> stateData, currentTime |-> Undef,
        result |-> FALSE, err |-> <<Tok("No state file found")>>]
  ELSE IF JsGt(Num(t + 1), Get(stateData, "expires_at"))
  THEN [called |-> TRUE, stateData |-> stateData, currentTime |-> Num(t),
        result |-> FALSE, err |-> <<Tok("State has expired")>>]
  ELSE [called |-> TRUE, stateData |-> stateData, currentTime |-> Num(t),
        result |-> TRUE, err |-> <<>>]

\* verifyState on the file as it is at clock reading t
VerifyState(file, t) ==
  LET stateData == LoadState(file) IN
  IF ~Truthy(stateData)
  THEN [called |-> TRUE, stateData |-> stateData, currentTime |-> Undef,
        result |-> FALSE, err |-> <<Tok("No state file found")>>]
  ELSE IF JsGt(Num(t), Get(stateData, "expires_at"))
  THEN [called |-> TRUE, stateData |-> stateData, currentTime |-> Num(t),
        result |-> FALSE, err |-> <<Tok("State has expired")>>]
  ELSE [called |-> TRUE, stateData |-> stateData, currentTime |-> Num(t),
        result |-> TRUE, err |-> <<>>]

\* a cleaning that cuts at '#' only
CleanCodeHashOnly(authorizationCode) == Head(Split(authorizationCode, "#"))

\* authorizationCode.split('#')[0]?.split('&')[0] ?? authorizationCode:
\* split never returns an empty array, so neither [0] is undefined
CleanCode(authorizationCode) ==
  Head(Split(Head(Split(authorizationCode, "#")), "&"))

\* params with the state and the code_verifier in each other's place
ExchangeParamsSwapped(cleanedCode, stateData) ==
  Obj([grant_type |-> Tok("authorization_code"), client_id |-> CLIENT_ID,
       code |-> Str(cleanedCode), redirect_uri |-> REDIRECT_URI,
       code_verifier |-> Get(stateData, "state"),
       state |-> Get(stateData, "code_verifier")])

\* the params object of exchangeCode
ExchangeParams(cleanedCode, stateData) ==
  Obj([grant_type |-> Tok("authorization_code"), client_id |-> CLIENT_ID,
       code |-> Str(cleanedCode), redirect_uri |-> REDIRECT_URI,
       code_verifier |-> Get(stateData, "code_verifier"),
       state |-> Get(stateData, "state")])

\* the fetch call of exchangeCode
TokenRequest(params) ==
  [url |-> OAUTH_TOKEN_URL, method |-> "POST", body |-> JsonStringify(params)]

\* a credential with the two tokens in each other's place
CredentialSwapped(data, t) ==
  Obj([accessToken |-> Get(data, "refresh_token"),
       refreshToken |-> Get(data, "access_token"),
       expiresAt |-> JsMul(JsAdd(Num(t), Get(data, "expires_in")), Num(MsPerSecond)),
       scopes |-> DefaultScopes,
       isMax |-> Bool(TRUE)])

\* a credential that keeps the scope string whole
CredentialUnsplitScope(data, t) ==
  Obj([accessToken |-> Get(data, "access_token"),
       refreshToken |-> Get(data, "refresh_token"),
       expiresAt |-> JsMul(JsAdd(Num(t), Get(data, "expires_in")), Num(MsPerSecond)),
       scopes |-> IF Truthy(Get(data, "scope"))
                  THEN Arr(<<Get(data, "scope")>>)
                  ELSE DefaultScopes,
       isMax |-> Bool(TRUE)])

\* a credential whose expiresAt is left in seconds
CredentialInSeconds(data, t) ==
  Obj([accessToken |-> Get(data, "access_token"),
       refreshToken |-> Get(data, "refresh_token"),
       expiresAt |-> JsAdd(Num(t), Get(data, "expires_in")),
       scopes |-> IF Truthy(Get(data, "scope"))
                  THEN Arr([i \in DOMAIN Split(Get(data, "scope").v, " ") |->
                              Str(Split(Get(data, "scope").v, " ")[i])])
                  ELSE DefaultScopes,
       isMax |-> Bool(TRUE)])

\* the credential exchangeCode builds of a token payload at clock reading t
Credential(data, t) ==
  Obj([accessToken |-> Get(data, "access_token"),
       refreshToken |-> Get(data, "refresh_token"),
       expiresAt |-> JsMul(JsAdd(Num(t), Get(data, "expires_in")), Num(MsPerSecond)),
       scopes |-> IF Truthy(Get(data, "scope"))
                  THEN Arr([i \in DOMAIN Split(Get(data, "scope").v, " ") |->
                              Str(Split(Get(data, "scope").v, " ")[i])])
                  ELSE DefaultScopes,
       isMax |-> Bool(TRUE)])

\* an exchangeCode without the response.ok test: the body of a failure
\* response is read as a token payload
ExchangeResultIgnoresStatus(response, t) ==
  CASE response.kind = "throw" ->
         [result |-> JNull, err |-> <<Tok("Error making token request")>>]
    [] response.kind = "status" ->
         [result |-> Credential(BarePayload, t), err |-> <<>>]
    [] response.kind = "badbody" ->
         [result |-> JNull, err |-> <<Tok("Error making token request")>>]
    [] response.kind = "json" ->
         IF response.data.t \in {"null", "undefined"}
         THEN [result |-> JNull, err |-> <<Tok("Error making token request")>>]
         ELSE [result |-> Credential(response.data, t), err |-> <<>>]

\* what exchangeCode returns, and logs, once the fetch has come to `response`
ExchangeResult(response, t) ==
  CASE response.kind = "throw" ->
         [result |-> JNull, err |-> <<Tok("Error making token request")>>]
    [] response.kind = "status" ->
         [result |-> JNull, err |-> <<Tok("Error response")>>]
    [] response.kind = "badbody" ->
         [result |-> JNull, err |-> <<Tok("Error making token request")>>]
    [] response.kind = "json" ->
         IF response.data.t \in {"null", "undefined"}
            \/ (Truthy(Get(response.data, "scope")) /\ Get(response.data, "scope").t # "str")
         THEN [result |-> JNull, err |-> <<Tok("Error making token request")>>]
         ELSE [result |-> Credential(response.data, t), err |-> <<>>]

\* a saveCredentials that writes the credential without its envelope
CredentialsTextBare(tokens) == JsonStringify(tokens)

\* the text saveCredentials writes
CredentialsText(tokens) == JsonStringify(Obj([claudeAiOauth |-> tokens]))

\* the credentials a direct call of saveCredentials is given
ApiCredentials == {Credential(FullPayload, 0), Credential(BarePayload, 0)}

----------------------------------------------------------------------------
(* The state *)

VARIABLES
  now,        \* the wall clock, Math.floor(Date.now() / 1000)
  ticks,      \* how many times the clock has advanced
  runs,       \* how many invocations have been started
  stateFile,  \* what is at STATE_FILE
  credFile,   \* what is at CREDENTIALS_FILE
  pc,         \* the function the invocation is about to run; "fetch" while
              \* the token request is in flight; "idle" when none runs
  caller,     \* "cli": a run of the script; "api": a direct call
  argv,       \* the arguments of the invocation
  exitCode,   \* the exit code of the CLI run, undefined until it exits
  stdout,     \* what the invocation has written with console.log
  stderr,     \* what it has written with console.warn and console.error
  gen,        \* the locals and the result of generateLoginUrl / saveState
  ls,         \* the result of a direct loadState call
  vs,         \* the locals and the result of verifyState
  ex,         \* the locals and the result of exchangeCode
  sc,         \* the argument and the result of saveCredentials
  cl,         \* the outcome of cleanupState
  io,         \* how often the invocation has called fetch, writeFile, unlink
  prev        \* how the invocation before this one ended

vars ==
  <<now, ticks, runs, stateFile, credFile, pc, caller, argv, exitCode, stdout,
    stderr, gen, ls, vs, ex, sc, cl, io, prev>>

\* how an invocation has ended, as far as a later one depends on it: a
\* generateLoginUrl with its state saved or not, a run of the script that has
\* exchanged the code and deleted the record ("state consumed", which stays
\* through invocations that neither generate a URL nor call cleanupState)
Outcome ==
  CASE caller = "none" -> "none"
    [] gen.called /\ gen.saved -> "state saved"
    [] gen.called /\ ~gen.saved -> "state not saved"
    [] caller = "cli" /\ cl.called /\ cl.removed /\ exitCode = Num(0) -> "state consumed"
    [] caller # "none" /\ ~gen.called /\ ~cl.called /\ prev = "state consumed"
         -> "state consumed"
    [] OTHER -> "other"

\* a function that the invocation has not called
NotCalled == [called |-> FALSE]
NoIo == [fetch |-> 0, stateWrite |-> 0, credWrite |-> 0, unlink |-> 0]

Init ==
  /\ now = TTL
  /\ ticks = 0
  /\ runs = 0
  /\ stateFile \in InitStateFiles
  /\ credFile \in InitCredFiles
  /\ pc = "idle"
  /\ caller = "none"
  /\ argv = <<>>
  /\ exitCode = Undef
  /\ stdout = <<>>
  /\ stderr = <<>>
  /\ gen = NotCalled
  /\ ls = NotCalled
  /\ vs = NotCalled
  /\ ex = NotCalled
  /\ sc = NotCalled
  /\ cl = NotCalled
  /\ io = NoIo
  /\ prev = "none"

\* the wall clock advances
Tick ==
  /\ ticks < MaxTicks
  /\ \E d \in TickSteps : now' = now + d
  /\ ticks' = ticks + 1
  /\ UNCHANGED <<runs, stateFile, credFile, pc, caller, argv, exitCode, stdout,
                 stderr, gen, ls, vs, ex, sc, cl, io, prev>>

\* a script that looks for the help flag in its first argument only
WantsHelpFirstOnly(args) ==
  Len(args) > 0 /\ (args[1] = HelpLong \/ args[1] = HelpShort)

\* args.includes('--help') || args.includes('-h')
WantsHelp(args) == \E i \in DOMAIN args : args[i] = HelpLong \/ args[i] = HelpShort

\* a new process starts with nothing called, written or printed
NewInvocation ==
  /\ pc = "idle"
  /\ runs < MaxRuns
  /\ runs' = runs + 1
  /\ stderr' = <<>>
  /\ gen' = NotCalled
  /\ ls' = NotCalled
  /\ vs' = NotCalled
  /\ ex' = NotCalled
  /\ sc' = NotCalled
  /\ cl' = NotCalled
  /\ io' = NoIo
  /\ prev' = Outcome
  /\ UNCHANGED <<now, ticks, stateFile, credFile>>

\* the script is run: the help text and exit 0, or the flow the first
\* argument selects
CliStart ==
  \E args \in ArgLists :
    /\ NewInvocation
    /\ caller' = "cli"
    /\ argv' = args
    /\ IF WantsHelp(args)
       THEN /\ stdout' = <<Tok("Usage")>>
            /\ exitCode' = Num(0)
            /\ pc' = "idle"
       ELSE /\ stdout' = <<>>
            /\ exitCode' = Undef
            /\ pc' = IF Len(args) > 0 /\ Truthy(Str(args[1]))
                     THEN "verifyState"
                     ELSE "generateLoginUrl"

\* an exported function is called directly, as the test suite calls them
ApiCall ==
  /\ NewInvocation
  /\ caller' = "api"
  /\ exitCode' = Undef
  /\ stdout' = <<>>
  /\ \/ /\ pc' \in {"generateLoginUrl", "loadState", "verifyState", "cleanupState"}
        /\ argv' = <<>>
     \/ /\ pc' = "exchangeCode"
        /\ \E code \in Codes : argv' = <<code>>
     \/ /\ pc' = "saveCredentials"
        /\ \E tokens \in ApiCredentials : argv' = <<tokens>>

----------------------------------------------------------------------------
(* The control flow of the script (the CLI handling of src/index.ts): where *)
(* it goes once a function has returned                                     *)

\* a script that goes on to the exchange whatever verifyState returned
CliAfterVerifyGoesOn(result) == "exchangeCode"

\* if (!await verifyState()) { ...; process.exit(1) }
CliAfterVerify(result) == IF result THEN "exchangeCode" ELSE "exit1"

\* a script that saves whatever exchangeCode returned, null too
CliAfterExchangeSavesAnyway(tokens) == "saveCredentials"

\* a script that removes the pending state before it saves the credential
CliAfterExchangeCleansFirst(tokens) ==
  IF Truthy(tokens) THEN "cleanupState" ELSE "exit1"

\* a script that removes the pending state when exchangeCode returned null
CliAfterExchangeCleansUp(tokens) ==
  IF Truthy(tokens) THEN "saveCredentials" ELSE "cleanupState"

\* a script that calls exchangeCode again when it returned null
CliAfterExchangeRetries(tokens) ==
  IF Truthy(tokens) THEN "saveCredentials" ELSE "exchangeCode"

\* if (tokens) { ... } ...; console.error('Login failed!'); process.exit(1)
CliAfterExchange(tokens) == IF Truthy(tokens) THEN "saveCredentials" ELSE "exit1"

\* a script that exits after a successful save without calling cleanupState
CliAfterSaveSkipsCleanup(saved) == IF saved THEN "exit0" ELSE "exit1"

\* a script that does not look at what saveCredentials returned
CliAfterSaveIgnoresResult(saved) == "cleanupState"

\* if (await saveCredentials(tokens)) { await cleanupState(); ... }
CliAfterSave(saved) == IF saved THEN "cleanupState" ELSE "exit1"

\* an exchangeCode without the test of the loaded state
ExchangeSendsAlways(stateData) == TRUE

\* exchangeCode goes on to its fetch only with a state it could load:
\* if (!stateData) { ...; return null }
ExchangeSends(stateData) == Truthy(stateData)

\* the invocation moves on: to a function, to an exit of the process, or
\* back to the caller of a direct call
Goto(target) ==
  CASE target = "exit0" -> pc' = "idle" /\ exitCode' = Num(0)
    [] target = "exit1" -> pc' = "idle" /\ exitCode' = Num(1)
    [] target = "return" -> pc' = "idle" /\ exitCode' = exitCode
    [] OTHER -> pc' = target /\ exitCode' = exitCode

----------------------------------------------------------------------------
(* The steps: one per function, cut at the awaits of the source.  A step   *)
(* of a CLI run goes on as the script's control flow says; a direct call   *)
(* returns to its caller.                                                  *)

\* generateLoginUrl, saveState included.  The two fields of stateData come
\* of two reads of the clock: the second may fall in the next second.  The
\* script ends after it, with exit code 0.  (An error that no catch block
\* takes ends a run of the script with exit code 1, and rejects a direct call.)
GenerateLoginUrl ==
  /\ pc = "generateLoginUrl"
  /\ \E state \in States, codeVerifier \in Verifiers, d \in {0, 1}, ok \in BOOLEAN :
       /\ d = 1 => ticks < MaxTicks
       /\ ok => CanWrite(stateFile)
       /\ LET stateData == StateData(state, codeVerifier, now, now + d)
              codeChallenge == Sha256Base64Url(codeVerifier)
              url == LoginUrl(state, codeChallenge)
              raised == ~ok /\ SaveStateOnError = "throw"
          IN /\ now' = now + d
             /\ ticks' = ticks + d
             /\ stateFile' = WriteFile(stateFile, JsonStringify(stateData), ok)
             /\ stderr' = IF ok THEN stderr
                          ELSE IF raised THEN Append(stderr, Tok("Uncaught error"))
                          ELSE Append(stderr, Tok("Warning: Could not save state file"))
             /\ stdout' = IF raised THEN stdout ELSE stdout \o UrlOutput(url)
             /\ gen' = [called |-> TRUE, state |-> state, codeVerifier |-> codeVerifier,
                        codeChallenge |-> codeChallenge, stateData |-> stateData,
                        saved |-> ok, raised |-> raised,
                        url |-> IF raised THEN Undef ELSE url]
             /\ Goto(IF caller = "api" THEN "return"
                     ELSE IF raised THEN "exit1" ELSE "exit0")
  /\ io' = [io EXCEPT !.stateWrite = @ + 1]
  /\ UNCHANGED <<runs, credFile, caller, argv, ls, vs, ex, sc, cl, prev>>

\* loadState, called directly
LoadStateCall ==
  /\ pc = "loadState"
  /\ ls' = [called |-> TRUE, result |-> LoadState(stateFile)]
  /\ Goto("return")
  /\ UNCHANGED <<now, ticks, runs, stateFile, credFile, caller, argv, stdout,
                 stderr, gen, vs, ex, sc, cl, io, prev>>

\* verifyState; the script exits with 1 when it returns false
VerifyStateCall ==
  /\ pc = "verifyState"
  /\ LET r == VerifyState(stateFile, now)
         next == IF caller = "cli" THEN CliAfterVerify(r.result) ELSE "return"
     IN /\ vs' = [called |-> TRUE, stateData |-> r.stateData,
                  currentTime |-> r.currentTime, result |-> r.result]
        /\ stderr' = (stderr \o r.err)
                       \o (IF next = "exit1" THEN <<Tok("Invalid or expired state")>>
                           ELSE <<>>)
        /\ stdout' = IF next = "exchangeCode"
                     THEN Append(stdout, Tok("Exchanging authorization code"))
                     ELSE stdout
        /\ Goto(next)
  /\ UNCHANGED <<now, ticks, runs, stateFile, credFile, caller, argv, gen, ls,
                 ex, sc, cl, io, prev>>

\* how the invocation goes on once exchangeCode has returned `tokens`,
\* having logged `err`
AfterExchange(tokens, err) ==
  LET next == IF caller = "cli" THEN CliAfterExchange(tokens) ELSE "return" IN
    /\ stderr' = (stderr \o err)
                   \o (IF next = "exit1" THEN <<Tok("Login failed")>> ELSE <<>>)
    /\ stdout' = IF next = "saveCredentials"
                 THEN Append(stdout, Tok("OAuth token exchange successful"))
                 ELSE stdout
    /\ Goto(next)

\* exchangeCode up to its fetch: it cleans the code, loads the state and
\* either returns null or sends the token request
ExchangeCodeCall ==
  /\ pc = "exchangeCode"
  /\ LET authorizationCode == argv[1]
         cleanedCode == CleanCode(authorizationCode)
         stateData == LoadState(stateFile)
         params == ExchangeParams(cleanedCode, stateData)
     IN IF ~ExchangeSends(stateData)
        THEN /\ ex' = [called |-> TRUE, authorizationCode |-> authorizationCode,
                       cleanedCode |-> cleanedCode, stateData |-> stateData,
                       sent |-> FALSE, request |-> Undef, response |-> Undef,
                       returned |-> TRUE, result |-> JNull,
                       beforeTime |-> now, clock |-> Undef,
                       raised |-> FALSE]
             /\ io' = io
             /\ AfterExchange(JNull, <<Tok("Could not load state data")>>)
        ELSE /\ ex' = [called |-> TRUE, authorizationCode |-> authorizationCode,
                       cleanedCode |-> cleanedCode, stateData |-> stateData,
                       sent |-> TRUE, request |-> TokenRequest(params),
                       response |-> Undef, returned |-> FALSE, result |-> Undef,
                       beforeTime |-> now, clock |-> Undef,
                       raised |-> FALSE]
             /\ io' = [io EXCEPT !.fetch = @ + 1]
             /\ Goto("fetch")
             /\ UNCHANGED <<stdout, stderr>>
  /\ UNCHANGED <<now, ticks, runs, stateFile, credFile, caller, argv, gen, ls,
                 vs, sc, cl, prev>>

\* the fetch of exchangeCode settles and exchangeCode returns; it reads the
\* clock once it has the payload
FetchResponse ==
  /\ pc = "fetch"
  /\ \E response \in Responses :
       LET r == ExchangeResult(response, now)
           raised == /\ r.err = <<Tok("Error making token request")>>
                     /\ ExchangeCodeOnError = "throw"
       IN IF raised
          THEN /\ ex' = [ex EXCEPT !.response = response, !.raised = TRUE]
               /\ stderr' = Append(stderr, Tok("Uncaught error"))
               /\ stdout' = stdout
               /\ Goto(IF caller = "cli" THEN "exit1" ELSE "return")
          ELSE /\ ex' = [ex EXCEPT !.response = response, !.returned = TRUE,
                                   !.result = r.result,
                                   !.clock = IF r.result = JNull THEN Undef
                                             ELSE Num(now)]
               /\ AfterExchange(r.result, r.err)
  /\ UNCHANGED <<now, ticks, runs, stateFile, credFile, caller, argv, gen, ls,
                 vs, sc, cl, io, prev>>

\* saveCredentials; the script exits with 1 when it returns false
SaveCredentialsCall ==
  /\ pc = "saveCredentials"
  /\ \E ok \in BOOLEAN :
       LET tokens == IF caller = "cli" THEN ex.result ELSE argv[1]
           raised == ~ok /\ SaveCredentialsOnError = "throw"
           next == IF caller = "api" THEN "return"
                   ELSE IF raised THEN "exit1" ELSE CliAfterSave(ok)
       IN /\ ok => CanWrite(credFile)
          /\ credFile' = WriteFile(credFile, CredentialsText(tokens), ok)
          /\ sc' = [called |-> TRUE, tokens |-> tokens, raised |-> raised,
                    result |-> ok]
          /\ stderr' = IF raised THEN Append(stderr, Tok("Uncaught error"))
                       ELSE (stderr \o (IF ok THEN <<>>
                                        ELSE <<Tok("Error saving credentials")>>))
                              \o (IF next = "exit1" THEN <<Tok("Login failed")>>
                                  ELSE <<>>)
          /\ Goto(next)
  /\ io' = [io EXCEPT !.credWrite = @ + 1]
  /\ UNCHANGED <<now, ticks, runs, stateFile, caller, argv, stdout, gen, ls, vs,
                 ex, cl, prev>>

\* cleanupState; the script prints its success and exits with 0 after it
CleanupStateCall ==
  /\ pc = "cleanupState"
  /\ \E ok \in BOOLEAN :
       LET raised == ~ok /\ CleanupStateOnError = "throw" IN
       /\ ok => CanUnlink(stateFile)
       /\ stateFile' = Unlink(stateFile, ok)
       /\ cl' = [called |-> TRUE, removed |-> ok, raised |-> raised]
       /\ stderr' = IF ok THEN stderr
                    ELSE IF raised THEN Append(stderr, Tok("Uncaught error"))
                    ELSE IF CleanupStateOnError = "warn"
                    THEN Append(stderr, Tok("Warning: Could not clean up state file"))
                    ELSE stderr
       /\ stdout' = IF caller = "cli" /\ ~raised
                    THEN Append(stdout, Tok("SUCCESS")) ELSE stdout
       /\ Goto(IF caller = "api" THEN "return"
               ELSE IF raised THEN "exit1" ELSE "exit0")
  /\ io' = [io EXCEPT !.unlink = @ + 1]
  /\ UNCHANGED <<now, ticks, runs, credFile, caller, argv, gen, ls, vs, ex, sc,
                 prev>>

\* a step of the running invocation
Step ==
  \/ GenerateLoginUrl
  \/ LoadStateCall
  \/ VerifyStateCall
  \/ ExchangeCodeCall
  \/ FetchResponse
  \/ SaveCredentialsCall
  \/ CleanupStateCall

Next ==
  \/ Tick
  \/ CliStart
  \/ ApiCall
  \/ GenerateLoginUrl
  \/ LoadStateCall
  \/ VerifyStateCall
  \/ ExchangeCodeCall
  \/ FetchResponse
  \/ SaveCredentialsCall
  \/ CleanupStateCall

Spec == Init /\ [][Next]_vars

\* the runtime runs a started invocation on, and a fetch settles
FairSpec == Spec /\ WF_vars(Step)

\* exchangeCode is called directly with any raw code up to the bound
CallExchangeCode ==
  /\ NewInvocation
  /\ caller' = "api"
  /\ exitCode' = Undef
  /\ stdout' = <<>>
  /\ pc' = "exchangeCode"
  /\ \E code \in AllCodes : argv' = <<code>>

CodeNext ==
  \/ CallExchangeCode
  \/ ExchangeCodeCall
  \/ FetchResponse

\* the behaviours that only call exchangeCode, over every raw code
CodeSpec == Init /\ [][CodeNext]_vars

TypeOK ==
  /\ now \in Nat
  /\ ticks \in 0..MaxTicks
  /\ runs \in 0..MaxRuns
  /\ pc \in {"idle", "generateLoginUrl", "loadState", "verifyState", "exchangeCode",
             "fetch", "saveCredentials", "cleanupState"}
  /\ caller \in {"none", "cli", "api"}
  /\ exitCode \in {Undef, Num(0), Num(1)}

----------------------------------------------------------------------------
(* Properties *)

\* the invocation is a run of the script with an authorization code
Phase2 == caller = "cli" /\ ~WantsHelp(argv) /\ Len(argv) > 0 /\ Truthy(Str(argv[1]))
\* the run of the script has ended
Exited == caller = "cli" /\ pc = "idle" /\ exitCode # Undef

\* verifyState found no record it could load
VerifySawMissing == vs.called /\ vs.stateData = JNull
\* verifyState read a clock later than the expires_at of the loaded record
VerifySawExpired ==
  /\ vs.called
  /\ vs.stateData # JNull
  /\ Get(vs.stateData, "expires_at").t = "num"
  /\ vs.currentTime.v > Get(vs.stateData, "expires_at").v

\* C1: in a run of the script with a code, when verifyState finds the
\* pending-state record missing or expired (now > expires_at), the run exits
\* with code 1 and issues no token request.
C1_PreconditionFailureExits ==
  (Phase2 /\ (VerifySawMissing \/ VerifySawExpired))
    => /\ Exited
       /\ exitCode = Num(1)
       /\ io.fetch = 0
       /\ ~ex.called
C1_Witness ==
  /\ Phase2
  /\ VerifySawExpired
  /\ exitCode = Num(1)
  /\ stateFile = JsonFile(OldRecord)

\* exchangeCode has returned a credential
ExchangeGaveCredential == ex.called /\ ex.returned /\ ex.result # JNull

\* C2: a run of the script with a code exits with 0 exactly when verifyState
\* returned true, exchangeCode returned a credential and saveCredentials
\* returned true; it exits with 1 when any of the three failed.
C2_ExitCode ==
  (Phase2 /\ pc = "idle")
    => /\ exitCode \in {Num(0), Num(1)}
       /\ exitCode = Num(0)
            <=> /\ vs.called /\ vs.result
                /\ ExchangeGaveCredential
                /\ sc.called /\ sc.result
       /\ exitCode = Num(1)
            <=> \/ vs.called /\ ~vs.result
                \/ ex.called /\ ex.returned /\ ex.result = JNull
                \/ sc.called /\ ~sc.result
C2_Witness ==
  /\ Phase2
  /\ pc = "idle"
  /\ exitCode = Num(1)
  /\ vs.called /\ vs.result
  /\ ExchangeGaveCredential
  /\ sc.called /\ ~sc.result

\* the run started from a well-formed record that verifyState found
\* unexpired, and its token request was answered with success and
\* {access_token: A, refresh_token: B, expires_in: 3600}, no scope
EndToEndScenario ==
  /\ Phase2
  /\ vs.called /\ vs.result
  /\ Get(vs.stateData, "expires_at").t = "num"
  /\ Get(vs.stateData, "code_verifier").t = "tok"
  /\ Get(vs.stateData, "state").t = "tok"
  /\ ex.called /\ ex.returned /\ ex.sent
  /\ ex.response = [kind |-> "json", ok |-> TRUE, data |-> FullPayload]
\* the credential file holds accessToken A, refreshToken B and the default
\* scopes
CredFileHoldsAB ==
  /\ credFile.kind = "json"
  /\ Get(Get(credFile.doc, "claudeAiOauth"), "accessToken") = Tok("A")
  /\ Get(Get(credFile.doc, "claudeAiOauth"), "refreshToken") = Tok("B")
  /\ Get(Get(credFile.doc, "claudeAiOauth"), "scopes") = DefaultScopes
EndToEndResult ==
  /\ CredFileHoldsAB
  /\ stateFile = NoFile
  /\ exitCode = Num(0)

\* C3 as stated: every run of the scenario ends with the credential file
\* holding A, B and the default scopes, no pending-state record, and exit
\* code 0.
C3_EndToEndAlways == (EndToEndScenario /\ pc = "idle") => EndToEndResult

\* C3, amended: the run of the scenario goes on to saveCredentials and, when
\* the write of the credential file succeeds, to cleanupState; it ends with
\* A, B and the default scopes in the credential file and exit code 0 when
\* the write succeeded, with no pending-state record when also the delete
\* succeeded, and with exit code 1 when the write failed.
C3_EndToEnd ==
  EndToEndScenario
    => /\ pc \in {"saveCredentials", "cleanupState", "idle"}
       /\ pc \in {"cleanupState", "idle"} => sc.called
       /\ (sc.called /\ sc.result) => CredFileHoldsAB
       /\ pc = "idle" =>
            /\ sc.result => (cl.called /\ exitCode = Num(0))
            /\ (sc.result /\ cl.removed) => EndToEndResult
            /\ ~sc.result => exitCode = Num(1)
C3_Witness ==
  /\ EndToEndScenario
  /\ pc = "idle"
  /\ EndToEndResult
  /\ sc.result
  /\ cl.removed

\* C4: every record saveState writes has expires_at - timestamp = 600,
\* whatever the clock shows at each of its two reads.
C4_TtlExact ==
  (gen.called /\ gen.saved)
    => /\ stateFile.kind = "json"
       /\ Get(stateFile.doc, "expires_at").v - Get(stateFile.doc, "timestamp").v = TTL

\* C5: verifyState returns false when no record can be loaded, false when
\* the clock it reads is later than the record's expires_at, and true in
\* every other case, the clock equal to expires_at among them.
C5_VerifyState ==
  vs.called
    => /\ VerifySawMissing => ~vs.result
       /\ VerifySawExpired => ~vs.result
       /\ (~VerifySawMissing /\ ~VerifySawExpired) => vs.result
       /\ (pc = "exchangeCode" \/ (caller = "api" /\ pc = "idle"))
            => vs.stateData = LoadState(stateFile)
C5_Witness ==
  /\ vs.called
  /\ vs.result
  /\ vs.stateData # JNull
  /\ vs.currentTime = Get(vs.stateData, "expires_at")

\* C6: exchangeCode, called when no record can be loaded, returns null and
\* issues no token request, whatever the code.
C6_NoStateNoRequest ==
  (ex.called /\ ex.stateData = JNull)
    => /\ ex.returned
       /\ ex.result = JNull
       /\ ~ex.sent
       /\ io.fetch = 0
       /\ pc # "fetch"
C6_Witness ==
  /\ caller = "api"
  /\ ex.called
  /\ ex.stateData = JNull
  /\ ex.result = JNull
  /\ Len(ex.authorizationCode) > 1

\* C7: exchangeCode returns null when the token request is answered with a
\* failure status and when it fails in transport; no credential is produced
\* (none is saved either).
C7_FailureGivesNull ==
  (ex.called /\ ex.returned /\ ex.sent /\ ex.response.kind \in {"status", "throw"})
    => /\ ex.result = JNull
       /\ ~sc.called
       /\ Phase2 => exitCode = Num(1)
C7_Witness ==
  /\ ex.called /\ ex.returned /\ ex.sent
  /\ ex.response.kind = "status"
  /\ ex.result = JNull
  /\ Phase2

\* C8: nothing is retried: one invocation, and one exchangeCode call, issues
\* at most one token request, whatever comes of it, and attempts at most one
\* write of the credential file and one delete of the pending-state record.
C8_NoRetry ==
  /\ io.fetch <= 1
  /\ io.credWrite <= 1
  /\ io.unlink <= 1
  /\ (ex.called /\ ex.returned /\ ex.sent) => io.fetch = 1
C8_Witness ==
  /\ Phase2
  /\ pc = "idle"
  /\ io.fetch = 1
  /\ io.credWrite = 1
  /\ io.unlink = 1

\* C9: the body of every token request carries the code_verifier and the
\* state of the record that this exchangeCode call loaded, the sanitized
\* code, grant_type authorization_code, the client id and the redirect URI.
C9_RequestBody ==
  (ex.called /\ ex.sent)
    => /\ ex.request.url = OAUTH_TOKEN_URL
       /\ ex.request.method = "POST"
       /\ Get(ex.request.body, "code_verifier") = Get(ex.stateData, "code_verifier")
       /\ Get(ex.request.body, "state") = Get(ex.stateData, "state")
       /\ Get(ex.request.body, "code") = Str(ex.cleanedCode)
       /\ Get(ex.request.body, "grant_type") = Tok("authorization_code")
       /\ Get(ex.request.body, "client_id") = CLIENT_ID
       /\ Get(ex.request.body, "redirect_uri") = REDIRECT_URI
       /\ pc = "fetch" => (stateFile.kind = "json" /\ ex.stateData = stateFile.doc)
C9_Witness ==
  /\ ex.called /\ ex.sent
  /\ pc = "fetch"
  /\ gen.called = FALSE
  /\ Get(ex.request.body, "code_verifier") \in Verifiers
  /\ Get(ex.request.body, "state") \in States

\* the part of a raw code before its first '#' or '&', all of it when it has
\* neither
BeforeFirstDelimiter(raw) ==
  LET hits == {i \in DOMAIN raw : raw[i] \in {"#", "&"}} IN
  IF hits = {} THEN raw
  ELSE SubSeq(raw, 1, (CHOOSE i \in hits : \A j \in hits : i <= j) - 1)

\* C10: the code field of the token request is the part of the raw code
\* before its first '#' or '&', whichever comes first, and the whole raw code
\* when it has neither.
C10_CleanedCode ==
  (ex.called /\ ex.sent)
    => Get(ex.request.body, "code") = Str(BeforeFirstDelimiter(ex.authorizationCode))
C10_Witness ==
  /\ ex.called /\ ex.sent
  /\ ex.authorizationCode = <<"c", "&", "#">>
  /\ Get(ex.request.body, "code") = Str(<<"c">>)

\* C11: a credential that exchangeCode returns for a payload with a numeric
\* expires_in has expiresAt = (clock + expires_in) * 1000, the clock being read
\* in whole seconds once the response is there; so expiresAt / 1000 lies
\* between beforeTime + expires_in and afterTime + expires_in for a reading
\* taken before the call and any reading taken after it.
C11_ExpiresAt ==
  (ExchangeGaveCredential /\ Get(ex.response.data, "expires_in").t = "num")
    => LET expires_in == Get(ex.response.data, "expires_in").v
           expiresAt == Get(ex.result, "expiresAt")
       IN /\ ex.clock.t = "num"
          /\ expiresAt = Num((ex.clock.v + expires_in) * 1000)
          /\ (ex.beforeTime + expires_in) * 1000 <= expiresAt.v
          /\ expiresAt.v <= (now + expires_in) * 1000
C11_Witness ==
  /\ ExchangeGaveCredential
  /\ ex.response.data = ScopedPayload
  /\ ex.beforeTime < ex.clock.v
  /\ ex.clock.v < now
  /\ Get(ex.result, "expiresAt") = Num((ex.clock.v + 7200) * 1000)

\* the pieces of s between its spaces, in order
SpaceSeparated(s) ==
  LET cuts == {0} \cup {i \in 1..Len(s) : s[i] = " "} \cup {Len(s) + 1}
      Cut(k) == CHOOSE c \in cuts : Cardinality({d \in cuts : d < c}) = k
  IN [k \in 1..(Cardinality(cuts) - 1) |-> Str(SubSeq(s, Cut(k - 1) + 1, Cut(k) - 1))]

\* C12 as stated: whenever the payload has a scope property, the scopes of the
\* returned credential are its space-separated elements.
C12_ScopesWhenPresent ==
  (ExchangeGaveCredential /\ Get(ex.response.data, "scope").t = "str")
    => Get(ex.result, "scopes") = Arr(SpaceSeparated(Get(ex.response.data, "scope").v))

\* C12: the scopes of a returned credential are the space-separated elements
\* of the payload's scope, in its order, when scope is a non-empty string; they
\* are ["user:inference", "user:profile"] when scope is missing or the empty
\* string; isMax is true in every returned credential.
C12_Scopes ==
  ExchangeGaveCredential
    => LET scope == Get(ex.response.data, "scope") IN
       /\ (scope.t = "str" /\ scope.v # <<>>)
            => Get(ex.result, "scopes") = Arr(SpaceSeparated(scope.v))
       /\ (scope.t = "undefined" \/ scope = Str(<<>>))
            => Get(ex.result, "scopes") =
                 Arr(<< Str(<<"u","s","e","r",":","i","n","f","e","r","e","n","c","e">>),
                        Str(<<"u","s","e","r",":","p","r","o","f","i","l","e">>) >>)
       /\ Get(ex.result, "isMax") = Bool(TRUE)
C12_Witness ==
  /\ ExchangeGaveCredential
  /\ ex.response.data = ScopedPayload
  /\ Get(ex.result, "scopes") = Arr(<<Str(<<"r">>), Str(<<"w">>)>>)
  /\ Get(ex.result, "isMax") = Bool(TRUE)

\* C13: when the write of the pending state fails in generateLoginUrl, the
\* failure is warned about and nothing else: generateLoginUrl does not raise,
\* it returns the authorization URL and prints it, and a run of the script
\* ends with exit code 0.
C13_SaveFailureOnlyWarned ==
  (gen.called /\ ~gen.saved)
    => /\ ~gen.raised
       /\ gen.url = LoginUrl(gen.state, Sha256Base64Url(gen.codeVerifier))
       /\ stdout = <<gen.url>>
       /\ stderr = <<Tok("Warning: Could not save state file")>>
       /\ pc = "idle"
       /\ caller = "cli" => exitCode = Num(0)
C13_Witness ==
  /\ caller = "cli"
  /\ gen.called
  /\ ~gen.saved
  /\ stateFile = DirFile
  /\ exitCode = Num(0)
  /\ stdout = <<gen.url>>

\* C14 as stated: a run of the script with a code that follows a
\* generateLoginUrl whose state save failed ends with exit code 1, whatever
\* the pending-state store held before.
C14_NextPhase2Fails ==
  (Phase2 /\ prev = "state not saved" /\ Exited) => exitCode = Num(1)

\* C14: a run of the script with a code that follows a generateLoginUrl whose
\* state save failed finds the store as that save left it: when verifyState
\* can load no record, or loads an expired one, the run exits with code 1
\* and sends no token request; verifyState returns true only on a record that
\* it could load and that is not expired.
C14_NextPhase2FailsWithoutRecord ==
  (Phase2 /\ prev = "state not saved" /\ vs.called)
    => IF VerifySawMissing \/ VerifySawExpired
       THEN /\ ~vs.result
            /\ Exited
            /\ exitCode = Num(1)
            /\ io.fetch = 0
       ELSE /\ vs.result
            /\ vs.stateData.t = "obj"
            /\ ex.called => ex.stateData = vs.stateData
C14_Witness ==
  /\ Phase2
  /\ prev = "state not saved"
  /\ VerifySawMissing
  /\ stateFile = DirFile
  /\ exitCode = Num(1)

\* C15: saveCredentials never raises; when its write fails it logs the error
\* and returns false, and a run of the script then exits with code 1 and does
\* not call cleanupState.
C15_SaveCredentialsReturnsFalse ==
  /\ sc.called => ~sc.raised
  /\ (sc.called /\ ~sc.result)
       => /\ pc = "idle"
          /\ \E i \in DOMAIN stderr : stderr[i] = Tok("Error saving credentials")
          /\ caller = "cli" => /\ exitCode = Num(1)
                               /\ ~cl.called
                               /\ io.unlink = 0
C15_Witness ==
  /\ Phase2
  /\ sc.called
  /\ ~sc.result
  /\ ~sc.raised
  /\ exitCode = Num(1)
  /\ stateFile = JsonFile(OldRecord)
  /\ ~cl.called

\* C16: when cleanupState cannot delete the pending-state record in a run of
\* the script with a code, it only warns: the run, which has saved the
\* credential, prints its success and exits with code 0.
C16_CleanupFailureOnlyWarned ==
  (Phase2 /\ cl.called /\ ~cl.removed)
    => /\ ~cl.raised
       /\ sc.called /\ sc.result
       /\ credFile = JsonFile(CredentialsText(ex.result))
       /\ stderr = <<Tok("Warning: Could not clean up state file")>>
       /\ stdout[Len(stdout)] = Tok("SUCCESS")
       /\ Exited
       /\ exitCode = Num(0)
C16_Witness ==
  /\ Phase2
  /\ cl.called
  /\ ~cl.removed
  /\ stateFile = JsonFile(OldRecord)
  /\ exitCode = Num(0)

\* cleanupState has warned that it could not delete the record
CleanupWarned ==
  \E i \in DOMAIN stderr : stderr[i] = Tok("Warning: Could not clean up state file")

\* C17 as stated: cleanupState emits no warning when the record is already
\* absent.
C17_SilentWhenAbsent ==
  (cl.called /\ stateFile = NoFile) => ~CleanupWarned

\* C17: cleanupState never raises; when its unlink succeeds the record is gone
\* and nothing is warned; when its unlink fails, the case of an already-absent
\* record included, it warns and leaves the store as it is.
C17_CleanupNeverRaises ==
  cl.called
    => /\ ~cl.raised
       /\ pc = "idle"
       /\ cl.removed => (stateFile = NoFile /\ ~CleanupWarned)
       /\ ~cl.removed => CleanupWarned
C17_Witness ==
  /\ caller = "api"
  /\ cl.called
  /\ ~cl.removed
  /\ stateFile = NoFile
  /\ stderr = <<Tok("Warning: Could not clean up state file")>>

\* C18: loadState never raises; it returns null when there is no file and
\* when what is at the path cannot be read or is no JSON, and the stored
\* record otherwise: after a generateLoginUrl whose save succeeded, the
\* record loaded has the state and the code_verifier that were generated.
C18_LoadState ==
  /\ ls.called
       => /\ pc = "idle"
          /\ stateFile.kind \in {"none", "dir", "garbage"} => ls.result = JNull
          /\ stateFile.kind = "json" => ls.result = stateFile.doc
  /\ (ex.called /\ ~cl.called)
       => /\ stateFile.kind \in {"none", "dir", "garbage"} => ex.stateData = JNull
          /\ stateFile.kind = "json" => ex.stateData = stateFile.doc
  /\ (gen.called /\ gen.saved)
       => /\ Get(LoadState(stateFile), "state") = gen.state
          /\ Get(LoadState(stateFile), "code_verifier") = gen.codeVerifier
C18_Witness ==
  /\ ls.called
  /\ prev = "state saved"
  /\ Get(ls.result, "state") = Tok("s1")
  /\ Get(ls.result, "code_verifier") = Tok("v2")
  /\ Get(ls.result, "expires_at").t = "num"

\* C19: the pending-state store is one slot.  Whatever has been called, the
\* file holds at most one record (one state, one code_verifier); and when a
\* generateLoginUrl has saved its state, the file holds exactly the record of
\* that call, whatever was there before.
C19_SingleSlot ==
  /\ stateFile.kind = "json"
       => /\ stateFile.doc.t = "obj"
          /\ DOMAIN stateFile.doc.v
                \subseteq {"state", "code_verifier", "timestamp", "expires_at"}
  /\ (gen.called /\ gen.saved)
       => /\ stateFile.kind = "json"
          /\ Get(stateFile.doc, "state") = gen.state
          /\ Get(stateFile.doc, "code_verifier") = gen.codeVerifier
          /\ stateFile.doc = gen.stateData
C19_Witness ==
  /\ prev = "state saved"
  /\ gen.called
  /\ gen.saved
  /\ gen.state = Tok("s2")
  /\ Get(gen.stateData, "timestamp").v > TTL
  /\ stateFile = JsonFile(gen.stateData)

\* C20 as stated: when a run of the script with a code in which exchangeCode
\* returned a credential has exited, the pending-state record is gone.
C20_RecordGoneAfterExchange ==
  (Phase2 /\ Exited /\ ExchangeGaveCredential) => stateFile = NoFile

\* C20: when a run of the script with a code in which exchangeCode returned a
\* credential has exited, then either the credential was saved, cleanupState
\* has been called once and the record is gone if its unlink succeeded (a
\* warning is left and the record stays if not), or the save failed,
\* cleanupState was not called and the record is still there.
C20_RecordDeletedAfterSave ==
  (Phase2 /\ Exited /\ ExchangeGaveCredential)
    => /\ sc.called
       /\ sc.result
            => /\ cl.called
               /\ io.unlink = 1
               /\ cl.removed => stateFile = NoFile
               /\ ~cl.removed => (CleanupWarned /\ stateFile = JsonFile(ex.stateData))
       /\ ~sc.result
            => /\ ~cl.called
               /\ io.unlink = 0
               /\ stateFile = JsonFile(ex.stateData)
C20_Witness ==
  /\ Phase2
  /\ Exited
  /\ ExchangeGaveCredential
  /\ ex.stateData = OldRecord
  /\ cl.called
  /\ cl.removed
  /\ stateFile = NoFile
  /\ exitCode = Num(0)

\* C21: after a generateLoginUrl whose save succeeded, the code_challenge of
\* the URL is base64url(SHA-256(v)) for the code_verifier v that the state
\* file now holds, the state of the URL is the state the file holds, and v is
\* no part of the URL.
C21_Pkce ==
  (gen.called /\ gen.saved)
    => LET persisted == stateFile.doc
           params == gen.url.params
       IN /\ params.code_challenge =
               [t |-> "sha256-base64url", of |-> Get(persisted, "code_verifier")]
          /\ params.code_challenge_method = Tok("S256")
          /\ params.state = Get(persisted, "state")
          /\ gen.url.base # Get(persisted, "code_verifier")
          /\ \A k \in DOMAIN params : params[k] # Get(persisted, "code_verifier")
C21_Witness ==
  /\ gen.called
  /\ gen.saved
  /\ Get(stateFile.doc, "code_verifier") = Tok("v2")
  /\ gen.url.params.code_challenge = [t |-> "sha256-base64url", of |-> Tok("v2")]
  /\ gen.url.params.state = Tok("s1")

\* every field of the credential c is a value JSON can hold
JsonRepresentable(c) ==
  \A k \in DOMAIN c.v : c.v[k].t \notin {"undefined", "nan"}

\* C23 as stated: after saveCredentials(c) has returned true, the credentials
\* file parses to exactly {claudeAiOauth: c}, for every c.
C23_RoundTripEvery ==
  (sc.called /\ sc.result)
    => /\ credFile.kind = "json"
       /\ credFile.doc = Obj([claudeAiOauth |-> sc.tokens])

\* C23: after saveCredentials(c) has returned true, the credentials file
\* parses to an object with the one key claudeAiOauth, whatever the file held
\* before; its value is exactly c when every field of c is a value JSON can
\* hold, and it agrees with c on each such field in any case.
C23_RoundTrip ==
  (sc.called /\ sc.result)
    => /\ credFile.kind = "json"
       /\ credFile.doc.t = "obj"
       /\ DOMAIN credFile.doc.v = {"claudeAiOauth"}
       /\ JsonRepresentable(sc.tokens)
            => credFile.doc = Obj([claudeAiOauth |-> sc.tokens])
       /\ \A k \in DOMAIN sc.tokens.v :
            sc.tokens.v[k].t \notin {"undefined", "nan"}
              => Get(Get(credFile.doc, "claudeAiOauth"), k) = sc.tokens.v[k]
C23_Witness ==
  /\ sc.called
  /\ sc.result
  /\ Get(sc.tokens, "accessToken") = Tok("A2")
  /\ Get(sc.tokens, "expiresAt").t = "num"
  /\ Get(sc.tokens, "scopes") = Arr(<<Str(<<"r">>), Str(<<"w">>)>>)
  /\ credFile = JsonFile(Obj([claudeAiOauth |-> sc.tokens]))

\* --help or -h is among the arguments
HelpFlagIn(args) ==
  \E i \in DOMAIN args : args[i] = <<"-","-","h","e","l","p">> \/ args[i] = <<"-","h">>

\* C24: a run of the script whose arguments hold --help or -h, at any
\* position and also next to a code, exits with code 0 and does nothing else:
\* no step of it changes the state file or the credentials file, it calls none
\* of the OAuth functions and sends no token request.
C24_HelpDoesNothing ==
  [][(caller' = "cli" /\ HelpFlagIn(argv'))
       => /\ stateFile' = stateFile
          /\ credFile' = credFile
          /\ io' = NoIo
          /\ pc' = "idle"
          /\ exitCode' = Num(0)
          /\ ~gen'.called /\ ~vs'.called /\ ~ex'.called /\ ~sc'.called /\ ~cl'.called]_vars
C24_Witness ==
  /\ caller = "cli"
  /\ argv = << <<"c">>, <<"-","h">> >>
  /\ stateFile = JsonFile(OldRecord)
  /\ exitCode = Num(0)
  /\ stdout = <<Tok("Usage")>>
  /\ io = NoIo

\* C25: every generateLoginUrl writes the authorization URL to standard
\* output exactly once, and what it writes is what it returns, whether the
\* state was saved or not.
C25_UrlEmittedOnce ==
  gen.called
    => /\ gen.url.t = "url"
       /\ Cardinality({i \in DOMAIN stdout : stdout[i].t = "url"}) = 1
       /\ \A i \in DOMAIN stdout : stdout[i].t = "url" => stdout[i] = gen.url
C25_Witness ==
  /\ caller = "api"
  /\ gen.called
  /\ gen.saved
  /\ gen.url.params.state = Tok("s2")
  /\ stdout = <<gen.url>>

\* the run has failed: verifyState returned false, exchangeCode returned null
\* or saveCredentials returned false
Phase2Failed ==
  /\ Phase2
  /\ \/ vs.called /\ ~vs.result
     \/ ex.called /\ ex.returned /\ ex.result = JNull
     \/ sc.called /\ ~sc.result

\* C26: a run of the script with a code that fails leaves the pending-state
\* record as it is: it has neither written nor unlinked the state file, it
\* ends with exit code 1 without a call of cleanupState, and no step of a run
\* that has not called cleanupState changes the file.
C26_FailedRunKeepsRecord ==
  [][/\ Phase2Failed'
          => /\ ~cl'.called
             /\ io'.unlink = 0
             /\ io'.stateWrite = 0
             /\ pc' = "idle"
             /\ exitCode' = Num(1)
     /\ (Phase2' /\ ~cl'.called) => stateFile' = stateFile]_vars
C26_Witness ==
  /\ Phase2Failed
  /\ ex.called
  /\ ex.sent
  /\ ex.result = JNull
  /\ ex.stateData = OldRecord
  /\ stateFile = JsonFile(OldRecord)
  /\ exitCode = Num(1)

\* C27: in a run of the script with a code, cleanupState is called only after
\* saveCredentials has returned true: whenever the run is about to call it or
\* has called it, the credentials file holds the credential that exchangeCode
\* returned in this run.
C27_DeleteAfterSave ==
  (Phase2 /\ (pc = "cleanupState" \/ cl.called))
    => /\ ExchangeGaveCredential
       /\ sc.called
       /\ sc.result
       /\ sc.tokens = ex.result
       /\ io.credWrite = 1
       /\ credFile = JsonFile(CredentialsText(ex.result))
C27_Witness ==
  /\ Phase2
  /\ pc = "cleanupState"
  /\ ~cl.called
  /\ stateFile = JsonFile(OldRecord)
  /\ Get(ex.result, "accessToken") = Tok("A")
  /\ credFile = JsonFile(CredentialsText(ex.result))

\* C28: a run of the script writes the credentials file only when verifyState
\* has returned true and the token endpoint has answered its request with a
\* success response that gave a credential; a run that has not come to that
\* write (the URL flow, the help text, a run with a code that fails before or
\* in the exchange) leaves the file as it is in every step; and the URL flow
\* sends no token request.
C28_CredentialWrittenOnlyAfterSuccess ==
  [][/\ (caller' = "cli" /\ io'.credWrite > 0)
          => /\ Phase2'
             /\ vs'.called /\ vs'.result
             /\ ex'.called /\ ex'.sent /\ ex'.returned
             /\ io'.fetch = 1
             /\ ex'.response.kind = "json"
             /\ ex'.response.ok
             /\ ex'.result # JNull
             /\ sc'.called
             /\ sc'.tokens = ex'.result
     /\ (caller' = "cli" /\ io'.credWrite = 0) => credFile' = credFile
     /\ (caller' = "cli" /\ gen'.called)
          => (io'.fetch = 0 /\ io'.credWrite = 0 /\ ~ex'.called)]_vars
C28_Witness ==
  /\ Phase2
  /\ vs.called
  /\ vs.result
  /\ sc.called
  /\ sc.result
  /\ io.credWrite = 1
  /\ ex.response.data = ScopedPayload
  /\ Get(Get(credFile.doc, "claudeAiOauth"), "accessToken") = Tok("A2")

\* the record has an expires_at that the clock reading t has passed
ExpiredAt(record, t) ==
  /\ Get(record, "expires_at").t = "num"
  /\ t > Get(record, "expires_at").v

\* C29 as stated: in a run of the script with a code, the record whose
\* code_verifier is sent is the record verifyState checked and is not expired
\* at the clock reading at which the token request is issued.
C29_UnexpiredAtRequest ==
  (Phase2 /\ ex.called /\ ex.sent)
    => /\ ex.stateData = vs.stateData
       /\ ~ExpiredAt(ex.stateData, ex.beforeTime)

\* C29: in a run of the script with a code, the record whose code_verifier is
\* sent is the record verifyState checked, and it was not expired at the clock
\* reading of verifyState; exchangeCode loads it again and sends the request
\* at a later reading, which it compares with nothing.
C29_UnexpiredAtVerify ==
  (Phase2 /\ ex.called /\ ex.sent)
    => /\ vs.called
       /\ vs.result
       /\ ex.stateData = vs.stateData
       /\ Get(ex.request.body, "code_verifier") = Get(vs.stateData, "code_verifier")
       /\ ~ExpiredAt(vs.stateData, vs.currentTime.v)
       /\ vs.currentTime.v <= ex.beforeTime
C29_Witness ==
  /\ Phase2
  /\ ex.called
  /\ ex.sent
  /\ vs.stateData = OldRecord
  /\ vs.currentTime = Num(TTL)
  /\ ex.beforeTime = TTL + 1
  /\ Get(ex.request.body, "code_verifier") = Tok("v0")

\* the record is a well-formed pending authorization that the clock reading t
\* has not passed
WellFormedAt(record, t) ==
  /\ record.t = "obj"
  /\ Get(record, "state").t = "tok"
  /\ Get(record, "code_verifier").t = "tok"
  /\ Get(record, "expires_at").t = "num"
  /\ t <= Get(record, "expires_at").v

\* C30: whenever verifyState has returned true, the record it loaded has a
\* state, a code_verifier and a numeric expires_at that its clock reading has
\* not passed; and a token request is sent only with a record that has a
\* code_verifier and an expires_at.
C30_AcceptedRecordWellFormed ==
  /\ (vs.called /\ vs.result) => WellFormedAt(vs.stateData, vs.currentTime.v)
  /\ (Phase2 /\ ex.called /\ ex.sent)
       => /\ Get(ex.stateData, "expires_at").t = "num"
          /\ Get(ex.stateData, "code_verifier").t = "tok"

\* C31: a pending authorization is used once.  After a run of the script
\* that exited with code 0 and whose cleanupState deleted the record, every
\* run of the script with a code that comes before the next generateLoginUrl
\* finds no record: verifyState returns false, the run sends no token request
\* and exits with code 1.
C31_SingleUse ==
  (Phase2 /\ prev = "state consumed")
    => /\ stateFile = NoFile
       /\ pc \in {"verifyState", "idle"}
       /\ vs.called => (VerifySawMissing /\ ~vs.result)
       /\ ~ex.called
       /\ io.fetch = 0
       /\ pc = "idle" => exitCode = Num(1)
C31_Witness ==
  /\ Phase2
  /\ prev = "state consumed"
  /\ vs.called
  /\ Exited
  /\ exitCode = Num(1)
  /\ io.fetch = 0
  /\ credFile # NoFile

\* x has the five fields of a credential
IsCredential(x) ==
  /\ x.t = "obj"
  /\ DOMAIN x.v = {"accessToken", "refreshToken", "expiresAt", "scopes", "isMax"}

\* C32: exchangeCode never raises.  Whatever the code, the content of the
\* state file and the outcome of the request, a call either waits for its
\* fetch or has returned null or a credential; it returns null when the
\* request failed in transport, was answered with a failure status or with a
\* body that cannot be read as JSON, and a credential only for a request that
\* was sent and answered with a success status.
C32_ExchangeNeverRaises ==
  ex.called
    => /\ ~ex.raised
       /\ ex.returned \/ pc = "fetch"
       /\ ex.returned
            => /\ pc # "fetch"
               /\ caller = "api" => pc = "idle"
               /\ ex.result = JNull \/ IsCredential(ex.result)
               /\ ex.result # JNull
                    => (ex.sent /\ ex.response.kind = "json" /\ ex.response.ok)
               /\ (ex.sent /\ ex.response.kind \in {"throw", "status", "badbody"})
                    => ex.result = JNull
               /\ ~ex.sent => ex.result = JNull
C32_Witness ==
  /\ ex.called
  /\ ex.returned
  /\ ex.authorizationCode = <<"#", "c", "&">>
  /\ ex.stateData = NoVerifierRecord
  /\ ex.response.kind = "badbody"
  /\ ex.result = JNull
  /\ pc = "idle"

====
